---- MODULE Spec2Model ----
(***************************************************************************)
(* Worker attestation core of FlowData: WorkerKeypair, sha256_hash,        *)
(* verify_commit, create_attestation (worker_nodes/common/crypto.py),      *)
(* train_on_csv (worker_nodes/common/training_engine.py) and the /train    *)
(* handler (worker_nodes/worker_1/api.py).                                 *)
(*                                                                         *)
(* Text is a sequence of tokens, every token a TLA+ string: one character  *)
(* of a variable value, or one literal fragment of a format string.  Two   *)
(* texts are equal exactly when the Python strings are, because no value   *)
(* alphabet used here can spell a literal fragment.  Bytes are sequences   *)
(* of integers 0..255.  SHA-256 and Ed25519 are symbolic and injective.    *)
(***************************************************************************)
EXTENDS Integers, Sequences, FiniteSets, TLC

VARIABLES
    ED25519_AVAILABLE,   \* crypto.py:17-23, whether the cryptography import succeeded
    environ,             \* os.environ: the two private-key variables WorkerKeypair reads
    WORKER_KEYPAIR,      \* api.py:22-24, the process-wide WorkerKeypair object
    call,                \* the last call of a crypto.py function: its arguments and result
    prev,                \* the call before it (for comparing two attestations)
    round,               \* the /train round: request, position, locals, response
    suspended            \* a second /train round, parked at its await meanwhile

vars == <<ED25519_AVAILABLE, environ, WORKER_KEYPAIR, call, prev, round, suspended>>

-----------------------------------------------------------------------------
(* Bounds of the model *)

\* longest secret string enumerated character by character
MaxSecretLen == 4

\* largest epochCount a /train request asks for (the code caps at 10)
MaxRequestedEpochs == 11

\* last reading of the clock (datetime.utcnow) within a round
MaxTick == 1

-----------------------------------------------------------------------------
(* Python values *)

\* None and Optional[...] values
None == [isNone |-> TRUE]
Some(v) == [isNone |-> FALSE, val |-> v]

\* truthiness of an Optional[str] / Optional[bytes]: None and the empty value are falsy
TruthySeq(o) == (~o.isNone) /\ Len(o.val) > 0

\* a or b
PyOr(a, b) == IF TruthySeq(a) THEN a ELSE b

RECURSIVE Repeat(_, _)
Repeat(tok, n) == IF n <= 0 THEN <<>> ELSE <<tok>> \o Repeat(tok, n - 1)

RECURSIVE SeqsUpTo(_, _)
\* all sequences over S of length 0..n
SeqsUpTo(S, n) ==
    IF n = 0 THEN {<<>>}
    ELSE LET shorter == SeqsUpTo(S, n - 1)
         IN  shorter \cup {Append(s, c) : s \in {t \in shorter : Len(t) = n - 1}, c \in S}

\* s[:n]
Take(s, n) == SubSeq(s, 1, IF Len(s) < n THEN Len(s) ELSE n)

-----------------------------------------------------------------------------
(* str() of numbers and booleans, str.join, json.dumps *)

DigitChars == <<"0", "1", "2", "3", "4", "5", "6", "7", "8", "9">>

RECURSIVE NatStr(_)
NatStr(n) == IF n < 10 THEN <<DigitChars[n + 1]>>
             ELSE NatStr(n \div 10) \o <<DigitChars[(n % 10) + 1]>>

\* str(n) of an int
IntStr(n) == IF n < 0 THEN <<"-">> \o NatStr(0 - n) ELSE NatStr(n)

\* str(b) of a bool
BoolStr(b) == IF b THEN <<"True">> ELSE <<"False">>

\* round(x, 4): the grid of the published loss values, 10^-4
RoundUnit == 10000

\* A float is held as an integer count of 10^-5, one decimal digit below the
\* rounding grid, so that a value and its rounding can differ.
FloatUnit == 10 * RoundUnit

RECURSIVE StripZeros(_)
\* trailing zeros of the fraction digits dropped, one digit kept
StripZeros(ds) == IF Len(ds) > 1 /\ ds[Len(ds)] = "0"
                  THEN StripZeros(SubSeq(ds, 1, Len(ds) - 1))
                  ELSE ds

\* str(x) / repr(x) of a non-negative float: shortest decimal text, "1.0", "0.8523"
FloatStr(x) ==
    LET frac == Tail(NatStr(FloatUnit + (x % FloatUnit)))
    IN  NatStr(x \div FloatUnit) \o <<".">> \o StripZeros(frac)

RECURSIVE Join(_, _)
\* sep.join(parts)
Join(parts, sep) ==
    IF Len(parts) = 0 THEN <<>>
    ELSE IF Len(parts) = 1 THEN parts[1]
    ELSE parts[1] \o sep \o Join(Tail(parts), sep)

\* values of a hardware-info mapping: an int or a str
IntVal(n) == [kind |-> "int", n |-> n, s |-> <<>>]
StrVal(s) == [kind |-> "str", n |-> 0, s |-> s]

\* the keys a hardware-info mapping can hold, in sorted order
HwKeyOrder == <<"cpu_cores", "cpu_physical_cores", "memory_gb", "platform", "processor">>

\* json.dumps of a value: a number bare, a string in quotes
JsonValue(v) == IF v.kind = "int" THEN IntStr(v.n) ELSE <<"\"">> \o v.s \o <<"\"">>

\* json.dumps(d, sort_keys=True) of a mapping d (a function from keys to values)
JsonDumpsSorted(d) ==
    LET keys == SelectSeq(HwKeyOrder, LAMBDA k : k \in DOMAIN d)
        item(k) == <<"\"", k, "\"", ": ">> \o JsonValue(d[k])
    IN  <<"{">> \o Join([i \in 1..Len(keys) |-> item(keys[i])], <<", ">>) \o <<"}">>

\* truthiness of an Optional[Dict]: None and the empty mapping are falsy
TruthyDict(o) == (~o.isNone) /\ DOMAIN o.val # {}

\* d.get(k, default)
DictGet(d, k, default) == IF k \in DOMAIN d THEN d[k] ELSE default

\* the empty mapping {}
EmptyDict == <<>>

-----------------------------------------------------------------------------
(* hashlib.sha256, symbolic: the digest names its preimage, so it is       *)
(* injective, and hexdigest() is lower-case hex text.                      *)

\* sha256_hash(data: str): UTF-8 encode, SHA-256, hex text
sha256_hash(text) == <<"sha256(">> \o text \o <<")">>

\* hashlib.sha256(data: bytes).digest()
Sha256Digest(bytes) == [alg |-> "sha256", of |-> bytes, msg |-> <<>>]

-----------------------------------------------------------------------------
(* The decoders of the secret string *)

B64Alphabet == {"A", "a", "z", "0"}
B64Val(c) == CASE c = "A" -> 0 [] c = "a" -> 26 [] c = "z" -> 51 [] c = "0" -> 52
HexAlphabet == {"A", "a", "0"}
HexVal(c) == CASE c = "A" -> 10 [] c = "a" -> 10 [] c = "0" -> 0
Ord(c) == CASE c = "A" -> 65 [] c = "a" -> 97 [] c = "z" -> 122
            [] c = "0" -> 48 [] c = "-" -> 45 [] c = "=" -> 61

Raised == [ok |-> FALSE, bytes |-> <<>>]
Returned(b) == [ok |-> TRUE, bytes |-> b]

\* binascii.a2b_base64, non-strict, as the scan from left to right computes it:
\* a character outside the alphabet is skipped; quad_pos is the number of data
\* characters read so far, modulo 4; a pad "=" counts only at quad_pos >= 2, and
\* the pads since the last data character that bring quad_pos + pads to 4 end
\* the scan there; at the end of the text an open quad raises.
B64IsData(c) == c \in B64Alphabet

B64DataBefore(s, i) == Cardinality({j \in 1..(i - 1) : B64IsData(s[j])})

\* pads counted at position i: the "=" after the last data character, up to i
B64PadsAt(s, i) ==
    Cardinality({j \in 1..i : s[j] = "=" /\ \A k \in j..i : ~B64IsData(s[k])})

\* the positions whose "=" completes a pad sequence
B64Stops(s) ==
    {i \in 1..Len(s) : s[i] = "="
                        /\ (B64DataBefore(s, i) % 4) >= 2
                        /\ (B64DataBefore(s, i) % 4) + B64PadsAt(s, i) >= 4}

\* base64.b64decode(s)
b64decode(s) ==
    LET stops == B64Stops(s)
        done == stops # {}
        last == IF done THEN CHOOSE i \in stops : \A j \in stops : i <= j
                ELSE Len(s)
        d == SelectSeq(SubSeq(s, 1, last), B64IsData)
        quad_pos == Len(d) % 4
        nbytes == 3 * (Len(d) \div 4) + (IF quad_pos >= 2 THEN quad_pos - 1 ELSE 0)
        v(k) == B64Val(d[k])
        byte(n) ==
            LET q == 4 * ((n - 1) \div 3)
            IN  CASE ((n - 1) % 3) = 0 -> v(q + 1) * 4 + v(q + 2) \div 16
                  [] ((n - 1) % 3) = 1 -> (v(q + 2) % 16) * 16 + v(q + 3) \div 4
                  [] ((n - 1) % 3) = 2 -> (v(q + 3) % 4) * 64 + v(q + 4)
    IN  IF (~done) /\ quad_pos # 0 THEN Raised
        ELSE Returned([n \in 1..nbytes |-> byte(n)])

\* bytes.fromhex(s): pairs of hex digits
fromhex(s) ==
    IF Len(s) % 2 = 0 /\ \A i \in 1..Len(s) : s[i] \in HexAlphabet
    THEN Returned([i \in 1..(Len(s) \div 2) |-> 16 * HexVal(s[2 * i - 1]) + HexVal(s[2 * i])])
    ELSE Raised

\* s.encode('utf-8') of ASCII text
encode_utf8(s) == [i \in 1..Len(s) |-> Ord(s[i])]

\* length of an Ed25519 private key, and the cut of the raw fallback
KeySize == 32

\* the decoders tried in the order hex, base64, raw
DecodeSecretHexFirst(s) ==
    LET b == b64decode(s)
        h == fromhex(s)
    IN  IF h.ok THEN [source |-> "hex", bytes |-> h.bytes]
        ELSE IF b.ok THEN [source |-> "base64", bytes |-> b.bytes]
        ELSE [source |-> "raw", bytes |-> Take(encode_utf8(s), KeySize)]

\* crypto.py:44-53: base64, then hex, then the raw bytes cut to 32
DecodeSecret(s) ==
    LET b == b64decode(s)
        h == fromhex(s)
    IN  IF b.ok THEN [source |-> "base64", bytes |-> b.bytes]
        ELSE IF h.ok THEN [source |-> "hex", bytes |-> h.bytes]
        ELSE [source |-> "raw", bytes |-> Take(encode_utf8(s), KeySize)]

-----------------------------------------------------------------------------
(* WorkerKeypair *)

\* Ed25519 public key of a private key (symbolic), or the mock of line 80
PublicKeyOf(ed, sk) ==
    IF ed THEN [alg |-> "ed25519", of |-> sk, msg |-> <<>>]
    ELSE Sha256Digest(sk)

\* "worker-1", the node id of api.py:23
NodeIdWorker1 == <<"w", "-", "1">>

\* the keys Ed25519PrivateKey.generate() / secrets.token_bytes(32) can return
GeneratedKeys == {Repeat(7, KeySize), Repeat(9, KeySize)}

NoKeypair ==
    [status |-> "unset", node_id |-> <<>>, source |-> "none",
     private_key_bytes |-> None, public_key_bytes |-> None]

\* WorkerKeypair.__init__(node_id) under environment env, with g the key a
\* generation would draw: the object, or the exception of from_private_bytes
\* (status "raised", the fields as they were assigned before it)
WorkerKeypairInit(node_id, env, ed, g) ==
    LET private_key_env == PyOr(env.first, env.second)
        resolved == IF TruthySeq(private_key_env)
                    THEN DecodeSecret(private_key_env.val)
                    ELSE [source |-> "generated", bytes |-> g]
        sk == resolved.bytes
        loads == ed /\ resolved.source # "generated"
    IN  IF loads /\ Len(sk) # KeySize
        THEN [status |-> "raised", node_id |-> node_id, source |-> resolved.source,
              private_key_bytes |-> Some(sk), public_key_bytes |-> None]
        ELSE [status |-> "ready", node_id |-> node_id, source |-> resolved.source,
              private_key_bytes |-> Some(sk), public_key_bytes |-> Some(PublicKeyOf(ed, sk))]

\* WorkerKeypair.sign(message: bytes)
sign(kp, ed, message) ==
    IF ed THEN [alg |-> "ed25519sig", of |-> kp.private_key_bytes.val, msg |-> message]
    ELSE [alg |-> "sha256", of |-> kp.private_key_bytes.val, msg |-> message]

\* base64.b64encode(b).decode('utf-8'), symbolic and injective
b64encode(b) == [b64 |-> b]

get_public_key_base64(kp) == b64encode(kp.public_key_bytes.val)

\* "0x" + hex of the public key, first 64 hex characters (all 32 bytes)
get_sui_address(kp) == [hex0x |-> kp.public_key_bytes.val]

-----------------------------------------------------------------------------
(* get_hardware_info, verify_commit, create_attestation *)

\* crypto.py:128-134; platform.platform() is one fixed text of the host
get_hardware_info ==
    [k \in {"cpu_cores", "cpu_physical_cores", "memory_gb", "platform", "processor"} |->
        CASE k = "cpu_cores" -> IntVal(1)
          [] k = "cpu_physical_cores" -> IntVal(1)
          [] k = "memory_gb" -> IntVal(0)
          [] k = "platform" -> StrVal(<<"L", "i", "n", "u", "x">>)
          [] k = "processor" -> StrVal(<<"unknown">>)]

\* verify_commit with match always reported true
verify_commit_always(plaintext_data, commit_hash) ==
    [match |-> TRUE, computedHash |-> sha256_hash(plaintext_data),
     commitHash |-> commit_hash, verified |-> TRUE]

\* crypto.py:144-157
verify_commit(plaintext_data, commit_hash) ==
    LET computed_hash == sha256_hash(plaintext_data)
        match == (computed_hash = commit_hash)
    IN  [match |-> match, computedHash |-> computed_hash,
         commitHash |-> commit_hash, verified |-> match]

\* the message lines without the randomSeed line
MessagePartsNoSeed(a, loss_history_hash) ==
    << <<"nodeId:">> \o a.node_id,
       <<"weightsHash:">> \o a.weights_hash,
       <<"lossHistoryHash:">> \o loss_history_hash,
       <<"startedAt:">> \o a.started_at,
       <<"finishedAt:">> \o a.finished_at,
       <<"globalModelHash:">> \o a.global_model_hash,
       <<"numSamples:">> \o IntStr(a.num_samples),
       <<"epochCount:">> \o IntStr(a.epoch_count) >>
    \o (IF TruthyDict(a.hardware_info)
        THEN << <<"hardware:">> \o JsonDumpsSorted(a.hardware_info.val) >>
        ELSE <<>>)
    \o (IF TruthyDict(a.commit_verified)
        THEN << <<"commitVerified:">>
                    \o BoolStr(DictGet(a.commit_verified.val, "match", FALSE)),
                <<"commitHash:">>
                    \o DictGet(a.commit_verified.val, "commitHash", <<>>) >>
        ELSE <<>>)

\* crypto.py:191-208: the lines of the message, the optional ones appended
\* when the argument is truthy
MessageParts(a, loss_history_hash) ==
    << <<"nodeId:">> \o a.node_id,
       <<"weightsHash:">> \o a.weights_hash,
       <<"lossHistoryHash:">> \o loss_history_hash,
       <<"startedAt:">> \o a.started_at,
       <<"finishedAt:">> \o a.finished_at,
       <<"globalModelHash:">> \o a.global_model_hash,
       <<"numSamples:">> \o IntStr(a.num_samples),
       <<"epochCount:">> \o IntStr(a.epoch_count),
       <<"randomSeed:">> \o IntStr(a.random_seed) >>
    \o (IF TruthyDict(a.hardware_info)
        THEN << <<"hardware:">> \o JsonDumpsSorted(a.hardware_info.val) >>
        ELSE <<>>)
    \o (IF TruthyDict(a.commit_verified)
        THEN << <<"commitVerified:">>
                    \o BoolStr(DictGet(a.commit_verified.val, "match", FALSE)),
                <<"commitHash:">>
                    \o DictGet(a.commit_verified.val, "commitHash", <<>>) >>
        ELSE <<>>)

\* message.encode('utf-8'): the bytes of the text
MessageBytes(message) == [utf8 |-> message]

\* crypto.py:189: sha256_hash(",".join(map(str, loss_history)))
LossHistoryHash(loss_history) ==
    sha256_hash(Join([i \in 1..Len(loss_history) |-> FloatStr(loss_history[i])], <<",">>))

\* crypto.py:159-229; a holds the arguments, kp the keypair
create_attestation(a, kp, ed) ==
    LET loss_history_hash == LossHistoryHash(a.loss_history)
        message == Join(MessageParts(a, loss_history_hash), <<"\n">>)
        signature_bytes == sign(kp, ed, MessageBytes(message))
        public_key_base64 == get_public_key_base64(kp)
    IN  [message |-> message,
         signature |-> b64encode(signature_bytes),
         publicKey |-> public_key_base64,
         signerPubKey |-> public_key_base64,
         weightsHash |-> a.weights_hash,
         lossHistoryHash |-> loss_history_hash,
         suiAddress |-> get_sui_address(kp),
         hardwareInfo |-> IF TruthyDict(a.hardware_info) THEN a.hardware_info
                          ELSE Some(get_hardware_info),
         commitVerified |-> a.commit_verified]

-----------------------------------------------------------------------------
(* Calls of verify_commit and create_attestation on enumerated arguments *)

Plaintexts == { <<"i", "d", "\n", "1", "\n">>, <<"i", "d", "\n", "1", "\n", "x">> }

\* c.upper() of a hex digest
UpperHex(c) == [i \in 1..Len(c) |-> IF c[i] = "sha256(" THEN "SHA256(" ELSE c[i]]

CommitHashes ==
    {sha256_hash(p) : p \in Plaintexts}
        \cup {UpperHex(sha256_hash(p)) : p \in Plaintexts}
        \cup {<<>>, <<"d", "e", "a", "d">>}

NodeIds == {NodeIdWorker1, <<"w", "-", "2">>}
WeightsHashes == {sha256_hash(<<"w", "1">>), sha256_hash(<<"w", "2">>)}
LossHistories == { <<82000, 71000, 65000>>, <<82000, 71000>>, <<82000, 71000, 65010>>, <<>> }
Timestamps == { <<"T", "0">>, <<"T", "1">> }
GlobalModelHashes == { <<"g", "0">>, <<"g", "1">> }
SampleCounts == {10, 11}
EpochCounts == {3, 13}
RandomSeeds == {1337, 7}
HardwareInfos ==
    { None, Some(EmptyDict), Some(get_hardware_info),
      Some([k \in {"cpu_cores"} |-> IntVal(4)]),
      Some([k \in {"cpu_cores"} |-> StrVal(<<"4">>)]),
      Some([k \in {"cpu_cores", "platform"} |->
                IF k = "cpu_cores" THEN IntVal(4) ELSE StrVal(<<"L">>)]) }
CommitVerifieds ==
    {None, Some(EmptyDict)}
        \cup {Some(verify_commit(p, c)) : p \in Plaintexts, c \in CommitHashes}

\* the arguments of a first call
BaseArgs ==
    [node_id : NodeIds, weights_hash : {sha256_hash(<<"w", "1">>)},
     loss_history : LossHistories \ {<<>>}, started_at : {<<"T", "0">>},
     finished_at : {<<"T", "1">>}, global_model_hash : {<<"g", "0">>},
     num_samples : {10}, epoch_count : {3}, random_seed : {1337},
     hardware_info : HardwareInfos, commit_verified : CommitVerifieds]

\* the arguments that differ from a in exactly one parameter
OneChanged(a) ==
    ( {[a EXCEPT !.node_id = v] : v \in NodeIds}
      \cup {[a EXCEPT !.weights_hash = v] : v \in WeightsHashes}
      \cup {[a EXCEPT !.loss_history = v] : v \in LossHistories}
      \cup {[a EXCEPT !.started_at = v] : v \in Timestamps}
      \cup {[a EXCEPT !.finished_at = v] : v \in Timestamps}
      \cup {[a EXCEPT !.global_model_hash = v] : v \in GlobalModelHashes}
      \cup {[a EXCEPT !.num_samples = v] : v \in SampleCounts}
      \cup {[a EXCEPT !.epoch_count = v] : v \in EpochCounts}
      \cup {[a EXCEPT !.random_seed = v] : v \in RandomSeeds}
      \cup {[a EXCEPT !.hardware_info = v] : v \in HardwareInfos}
      \cup {[a EXCEPT !.commit_verified = v] : v \in CommitVerifieds} ) \ {a}

InitCrypto ==
    /\ ED25519_AVAILABLE \in BOOLEAN
    /\ environ = [first |-> None, second |-> None]
    /\ \E g \in GeneratedKeys :
         WORKER_KEYPAIR = WorkerKeypairInit(NodeIdWorker1, environ, ED25519_AVAILABLE, g)
    /\ call = [fn |-> "none"]
    /\ prev = [fn |-> "none"]
    /\ suspended = [pc |-> "idle"]
    /\ round = [pc |-> "idle"]

CallVerifyCommit(p, c) ==
    /\ call' = [fn |-> "verify_commit", args |-> [plaintext_data |-> p, commit_hash |-> c],
                result |-> verify_commit(p, c)]
    /\ prev' = [fn |-> "none"]
    /\ UNCHANGED <<ED25519_AVAILABLE, environ, WORKER_KEYPAIR, round, suspended>>

\* a first create_attestation call
CallCreateAttestation(a) ==
    /\ call.fn # "create_attestation"
    /\ call' = [fn |-> "create_attestation", args |-> a,
                result |-> create_attestation(a, WORKER_KEYPAIR, ED25519_AVAILABLE)]
    /\ prev' = [fn |-> "none"]
    /\ UNCHANGED <<ED25519_AVAILABLE, environ, WORKER_KEYPAIR, round, suspended>>

\* a second call, with one argument changed and the same keypair
CallCreateAttestationAgain ==
    /\ call.fn = "create_attestation"
    /\ prev.fn = "none"
    /\ \E a \in OneChanged(call.args) :
         call' = [fn |-> "create_attestation", args |-> a,
                  result |-> create_attestation(a, WORKER_KEYPAIR, ED25519_AVAILABLE)]
    /\ prev' = call
    /\ UNCHANGED <<ED25519_AVAILABLE, environ, WORKER_KEYPAIR, round, suspended>>

NextCrypto ==
    \/ \E p \in Plaintexts, c \in CommitHashes : CallVerifyCommit(p, c)
    \/ \E a \in BaseArgs : CallCreateAttestation(a)
    \/ CallCreateAttestationAgain

SpecCrypto == InitCrypto /\ [][NextCrypto]_vars

\* what a verifier does with a signature: check it against the message under
\* the signer's key (symbolic: it is the signature of exactly that message)
Verifies(message, signature) ==
    signature = b64encode(sign(WORKER_KEYPAIR, ED25519_AVAILABLE, MessageBytes(message)))

\* the canonical message a verifier rebuilds from the attested values a and
\* the returned attestation att: the nine mandatory lines, the hardware line
\* when att.hardwareInfo is present, the commit lines when att.commitVerified is
RebuiltMessage(a, att) ==
    Join(<< <<"nodeId:">> \o a.node_id,
            <<"weightsHash:">> \o att.weightsHash,
            <<"lossHistoryHash:">> \o att.lossHistoryHash,
            <<"startedAt:">> \o a.started_at,
            <<"finishedAt:">> \o a.finished_at,
            <<"globalModelHash:">> \o a.global_model_hash,
            <<"numSamples:">> \o IntStr(a.num_samples),
            <<"epochCount:">> \o IntStr(a.epoch_count),
            <<"randomSeed:">> \o IntStr(a.random_seed) >>
         \o (IF ~att.hardwareInfo.isNone
             THEN << <<"hardware:">> \o JsonDumpsSorted(att.hardwareInfo.val) >>
             ELSE <<>>)
         \o (IF ~att.commitVerified.isNone
             THEN << <<"commitVerified:">>
                         \o BoolStr(DictGet(att.commitVerified.val, "match", FALSE)),
                     <<"commitHash:">>
                         \o DictGet(att.commitVerified.val, "commitHash", <<>>) >>
             ELSE <<>>),
         <<"\n">>)

\* C1: after every create_attestation call the message rebuilt by a verifier
\* from the attested values equals the returned message, and the returned
\* signature is the keypair's signature over that message.
C1_VerifierRebuildsMessage ==
    call.fn = "create_attestation" =>
        /\ RebuiltMessage(call.args, call.result) = call.result.message
        /\ Verifies(call.result.message, call.result.signature)

AttestedFields ==
    {"node_id", "weights_hash", "loss_history", "started_at", "finished_at",
     "global_model_hash", "num_samples", "epoch_count", "random_seed",
     "hardware_info", "commit_verified"}

\* the parameters in which two argument records differ
Differing(a, b) == {f \in AttestedFields : a[f] # b[f]}

\* the match flag and commit hash a commitVerification carries
CommitSummary(cv) ==
    <<DictGet(cv.val, "match", FALSE), DictGet(cv.val, "commitHash", <<>>)>>

\* two calls whose inputs differ in exactly one attested field: a mandatory
\* one, the content of a supplied hardwareInfo, or the match flag / commitHash
\* of a supplied commitVerification
DifferInOneAttestedField(a, b) ==
    /\ Cardinality(Differing(a, b)) = 1
    /\ Differing(a, b) = {"hardware_info"} =>
            (~a.hardware_info.isNone) /\ ~b.hardware_info.isNone
    /\ Differing(a, b) = {"commit_verified"} =>
            /\ (~a.commit_verified.isNone) /\ ~b.commit_verified.isNone
            /\ CommitSummary(a.commit_verified) # CommitSummary(b.commit_verified)

\* C2: two create_attestation calls with the same keypair whose inputs differ
\* in exactly one attested field have different canonical messages, and the
\* signature of either does not verify against the message of the other.
C2_OneFieldChangesMessage ==
    (prev.fn = "create_attestation" /\ call.fn = "create_attestation"
        /\ DifferInOneAttestedField(prev.args, call.args)) =>
        /\ prev.result.message # call.result.message
        /\ ~Verifies(call.result.message, prev.result.signature)
        /\ ~Verifies(prev.result.message, call.result.signature)

\* C2 witness: two calls were made that differ only in the match flag of the
\* commitVerification.
C2_Witness ==
    /\ prev.fn = "create_attestation" /\ call.fn = "create_attestation"
    /\ Differing(prev.args, call.args) = {"commit_verified"}
    /\ DifferInOneAttestedField(prev.args, call.args)
    /\ TruthyDict(prev.args.commit_verified) /\ TruthyDict(call.args.commit_verified)
    /\ prev.args.commit_verified.val.commitHash = call.args.commit_verified.val.commitHash
    /\ prev.result.message # call.result.message

\* C3: two create_attestation calls with the same keypair that differ only in
\* whether hardwareInfo is supplied (any supplied value, the empty mapping
\* included) have different messages and different signatures.
C3_PresenceChangesMessage ==
    (prev.fn = "create_attestation" /\ call.fn = "create_attestation"
        /\ Differing(prev.args, call.args) = {"hardware_info"}
        /\ prev.args.hardware_info.isNone # call.args.hardware_info.isNone) =>
        /\ prev.result.message # call.result.message
        /\ prev.result.signature # call.result.signature

\* what verify_commit must have returned in a call record c
VerifyCommitResultOk(c) ==
    LET p == c.args.plaintext_data
        h == c.args.commit_hash
        r == c.result
    IN  /\ r.match = r.verified
        /\ r.computedHash = sha256_hash(p)
        /\ r.commitHash = h
        /\ r.match <=> (h = sha256_hash(p))
        /\ \A q \in Plaintexts : (h = sha256_hash(q)) => (r.match <=> (q = p))
        /\ (h = UpperHex(sha256_hash(p))) => ~r.match

\* C4: every verify_commit call returns match = verified = (SHA-256(p) = c as
\* case-sensitive hex text), echoes computedHash and commitHash, and leaves the
\* keypair, the environment and the round as they were.
C4_VerifyCommit ==
    [][(call'.fn = "verify_commit") =>
          /\ VerifyCommitResultOk(call')
          /\ UNCHANGED <<ED25519_AVAILABLE, environ, WORKER_KEYPAIR, round, suspended>>]_vars

\* C4 witness: verify_commit was called with the hash of the plaintext and
\* reported a match.
C4_Witness ==
    /\ call.fn = "verify_commit"
    /\ call.args.commit_hash = sha256_hash(call.args.plaintext_data)
    /\ call.result.match

\* verify_commit was called with the hash of another plaintext and reported no match
C4_WitnessMismatch ==
    /\ call.fn = "verify_commit"
    /\ \E q \in Plaintexts : q # call.args.plaintext_data
                             /\ call.args.commit_hash = sha256_hash(q)
    /\ ~call.result.match

-----------------------------------------------------------------------------
(* train_on_csv *)

\* random.seed(seed): the generator state is a function of the seed alone.
\* The Mersenne Twister is stood for by a small congruential generator; a
\* state x is also the draw random() = x / 1000.
RngSeed(seed) == seed % 1000
RngStep(x) == (x * 61 + 17) % 1000

\* round(x, 4), to the nearest multiple of 10^-4, ties to even
Round4(x) ==
    LET step == FloatUnit \div RoundUnit
        q == x \div step
        r == x % step
    IN  IF 2 * r > step \/ (2 * r = step /\ q % 2 = 1) THEN (q + 1) * step ELSE q * step

\* the cap and the floor of the epoch loop, and the floor of num_samples
MaxEpochs == 10
MinEpochs == 1
MinSamples == 10

Max(a, b) == IF a >= b THEN a ELSE b
Min(a, b) == IF a <= b THEN a ELSE b

\* len([l for l in csv_text.splitlines() if l.strip()]); the texts here hold
\* no blank other than the newline
NonBlankLines(text) ==
    Cardinality({i \in 1..Len(text) : text[i] # "\n" /\ (i = 1 \/ text[i - 1] = "\n")})

\* the loss text with the epochs counted from 1
LossHashTextOneBased(epoch, loss_rounded, seed, challenge) ==
    <<"epoch:">> \o IntStr(epoch + 1) \o <<":loss:">> \o FloatStr(loss_rounded)
        \o <<":seed:">> \o IntStr(seed) \o <<":challenge:">> \o IntStr(challenge)

\* the text hashed for the loss of an epoch, line 28
LossHashText(epoch, loss_rounded, seed, challenge) ==
    <<"epoch:">> \o IntStr(epoch) \o <<":loss:">> \o FloatStr(loss_rounded)
        \o <<":seed:">> \o IntStr(seed) \o <<":challenge:">> \o IntStr(challenge)

\* f"{gradient_norm}" for gradient_norm = 1.0 / (x + 0.01): the float is named
\* by the operand it is the reciprocal of (the division is injective here)
GradNormStr(x) == <<"1.0/(">> \o FloatStr(x + FloatUnit \div 100) \o <<")">>

\* the text hashed for the gradient norm of an epoch, line 34
GradHashText(epoch, loss, seed, challenge) ==
    <<"epoch:">> \o IntStr(epoch) \o <<":grad_norm:">> \o GradNormStr(loss)
        \o <<":seed:">> \o IntStr(seed) \o <<":challenge:">> \o IntStr(challenge)

\* the loop bound without its floor of one pass
EpochsRunNoFloor(epochs) == Min(epochs, MaxEpochs)

\* the number of passes of the loop of line 21
EpochsRun(epochs) == Max(MinEpochs, Min(epochs, MaxEpochs))

RECURSIVE EpochLoop(_, _, _, _, _)
\* lines 21-35: the passes epoch, epoch + 1, ... , n - 1 of the loop from the
\* locals st (loss, generator state, the three lists)
EpochLoop(epoch, n, seed, challenge, st) ==
    IF epoch >= n THEN st
    ELSE LET slept == RngStep(st.rng)
             drawn == RngStep(slept)
             factor == 820 + (40 * drawn) \div 1000
             loss == (st.loss * factor + 500) \div 1000
             loss_rounded == Round4(loss)
         IN  EpochLoop(epoch + 1, n, seed, challenge,
                [loss |-> loss, rng |-> drawn,
                 history |-> Append(st.history, loss_rounded),
                 epoch_loss_hashes |->
                    Append(st.epoch_loss_hashes,
                           sha256_hash(LossHashText(epoch, loss_rounded, seed, challenge))),
                 epoch_gradient_norm_hashes |->
                    Append(st.epoch_gradient_norm_hashes,
                           sha256_hash(GradHashText(epoch, loss, seed, challenge)))])

\* training_engine.py:6-44
train_on_csv(csv_text, epochs, seed) ==
    LET first == RngStep(RngSeed(seed))
        num_samples == Max(MinSamples, NonBlankLines(csv_text) - 1)
        loss == FloatUnit + (first * 2 * FloatUnit) \div 10000
        second == RngStep(first)
        random_challenge_seed == 1000000 + second * 9000
        end == EpochLoop(0, EpochsRun(epochs), seed, random_challenge_seed,
                         [loss |-> loss, rng |-> second, history |-> <<>>,
                          epoch_loss_hashes |-> <<>>, epoch_gradient_norm_hashes |-> <<>>])
    IN  [num_samples |-> num_samples,
         loss_history |-> end.history,
         epoch_loss_hashes |-> end.epoch_loss_hashes,
         epoch_gradient_norm_hashes |-> end.epoch_gradient_norm_hashes,
         random_challenge_seed |-> random_challenge_seed]

-----------------------------------------------------------------------------
(* The /train handler of worker_1/api.py.  It is a coroutine whose only     *)
(* suspension point is the POST to the coordinator's decrypt endpoint, so   *)
(* it runs in at most two steps: TrainBegin up to that await (or to the     *)
(* end, when nothing is to be decrypted), DecryptReturn from it to the end. *)

\* api.py:24
WORKER_HARDWARE_INFO == get_hardware_info

\* datetime.utcnow().isoformat() at clock reading t
TimeStr(t) == <<"T">> \o IntStr(t)

\* str(xs) of a list of floats
FloatListStr(xs) ==
    <<"[">> \o Join([i \in 1..Len(xs) |-> FloatStr(xs[i])], <<", ">>) \o <<"]">>

\* s[:n] of a hex digest, symbolic
HexPrefix(h, n) == <<"prefix(">> \o IntStr(n) \o <<",">> \o h \o <<")">>

\* analyze_csv_shard(data_shard): an external collaborator, its result opaque
analyze_csv_shard(csv_text) == [analysis_of |-> csv_text]

\* crypto.py:231-254
encrypt_for_coordinator(data, session_key) ==
    IF TruthySeq(session_key)
    THEN [encrypted |-> TRUE, data |-> [b64 |-> [json |-> data]], encryption |-> <<"base64">>]
    ELSE [encrypted |-> FALSE, data |-> [b64 |-> [json |-> data]], encryption |-> <<>>]

ShardTexts ==
    Plaintexts \cup { <<"i", "d">> \o Repeat("\n", 1) \o Join([i \in 1..12 |-> <<"1">>], <<"\n">>) }

EncryptedBlob == <<"e", "n", "c">>

SessionKeyText == <<"k">>

\* the requests POSTed to /train (TrainShardRequest)
TrainRequests ==
    [dataShard : ShardTexts,
     globalModelHash : { <<"g", "0">> },
     epochCount : (0 - 1)..MaxRequestedEpochs,
     nodeId : {NodeIdWorker1},
     randomSeed : {7, 1337},
     encryptedData : {None, Some(<<>>), Some(EncryptedBlob)},
     sessionKey : {None, Some(SessionKeyText)},
     txBytes : {None},
     userAddress : {None},
     commitHash : {None, Some(sha256_hash(<<"i", "d", "\n", "1", "\n">>))}]

\* what the POST to /api/decrypt can end in: a timeout or transport error,
\* a non-success status (raise_for_status), a body without decryptedData,
\* or a body with it
DecryptOutcomes ==
    [kind : {"timeout", "http_error", "no_decryptedData"}, decryptedData : { <<>> }]
        \cup [kind : {"ok"}, decryptedData : Plaintexts]

\* api.py:119-209: analysis, training, attestation, audit trace, payload and
\* response, from the locals of round r
FinishRound(r, data_shard, commit_verified, audit_events, trace, finished) ==
    LET req == r.req
        data_insights == analyze_csv_shard(data_shard)
        stats == train_on_csv(data_shard, req.epochCount, req.randomSeed)
        weights_hash ==
            sha256_hash(req.nodeId \o <<":">> \o req.globalModelHash \o <<":">>
                        \o FloatListStr(stats.loss_history) \o <<":">>
                        \o IntStr(stats.num_samples) \o <<":">>
                        \o IntStr(stats.random_challenge_seed))
        delta == <<"sha256:">> \o HexPrefix(weights_hash, 32)
        attestation ==
            create_attestation(
                [node_id |-> req.nodeId, weights_hash |-> weights_hash,
                 loss_history |-> stats.loss_history, started_at |-> r.started,
                 finished_at |-> finished, global_model_hash |-> req.globalModelHash,
                 num_samples |-> stats.num_samples, epoch_count |-> req.epochCount,
                 random_seed |-> req.randomSeed,
                 hardware_info |-> Some(WORKER_HARDWARE_INFO),
                 commit_verified |-> commit_verified],
                WORKER_KEYPAIR, ED25519_AVAILABLE)
        audit == audit_events \o
            << [event |-> "training_complete", numSamples |-> stats.num_samples,
                epochs |-> req.epochCount],
               [event |-> "worker_identity", suiAddress |-> attestation.suiAddress],
               [event |-> "update_hash", weightsHash |-> weights_hash,
                lossHistoryHash |-> attestation.lossHistoryHash],
               [event |-> "signature_generated"] >>
        update_payload ==
            [nodeId |-> req.nodeId,
             suiAddress |-> attestation.suiAddress,
             numSamples |-> stats.num_samples,
             deltaWeightsHash |-> delta,
             weightsHash |-> weights_hash,
             lossHistory |-> stats.loss_history,
             startedAt |-> r.started,
             finishedAt |-> finished,
             dataInsights |-> data_insights,
             epochLossHashes |-> stats.epoch_loss_hashes,
             epochGradientNormHashes |-> stats.epoch_gradient_norm_hashes,
             randomChallengeSeed |-> stats.random_challenge_seed,
             attestation |-> attestation,
             auditTrace |-> audit]
    IN  [pc |-> "done", req |-> req, started |-> r.started, tick |-> r.tick,
         decrypt |-> r.decrypt,
         data_shard |-> data_shard, commit_verified |-> commit_verified,
         audit_events |-> audit,
         trace |-> trace \o <<"analyze_csv_shard", "train_on_csv", "create_attestation">>,
         response |->
            IF TruthySeq(req.sessionKey)
            THEN [kind |-> "update", encrypted |-> TRUE,
                  body |-> [encrypted |-> TRUE,
                            encryptedUpdate |->
                                encrypt_for_coordinator(update_payload, req.sessionKey)]]
            ELSE [kind |-> "update", encrypted |-> FALSE, body |-> update_payload]]

\* api.py:105-117: the except branch of the decrypt step
FailRound(r, audit_events, error) ==
    LET audit == Append(audit_events, [event |-> "decrypt_failed", error |-> error])
    IN  [pc |-> "done", req |-> r.req, started |-> r.started, tick |-> r.tick,
         decrypt |-> r.decrypt,
         data_shard |-> r.data_shard, commit_verified |-> None,
         audit_events |-> audit, trace |-> r.trace,
         response |-> [kind |-> "error", encrypted |-> FALSE,
                       body |-> [error |-> error, nodeId |-> r.req.nodeId,
                                 auditEvents |-> audit]]]

\* api.py:67: the decrypt step is tried when both are given
DecryptAttempted(req) == TruthySeq(req.encryptedData) /\ TruthySeq(req.sessionKey)

\* api.py:52-119: the handler's locals when it suspends or ends after the
\* arrival of req: at the await of the decrypt POST when the step is tried,
\* and otherwise at its end.  t is the clock at its start, t2 at its end.
RoundAfterBegin(req, t, t2) ==
    LET r == [pc |-> "await_decrypt", req |-> req, started |-> TimeStr(t),
              tick |-> t,
              decrypt |-> "none", data_shard |-> req.dataShard,
              commit_verified |-> None,
              audit_events |-> << [event |-> "training_start", nodeId |-> req.nodeId,
                                   globalModelHash |-> req.globalModelHash] >>,
              trace |-> <<>>]
    IN  IF DecryptAttempted(req)
        THEN [r EXCEPT !.audit_events =
                           Append(@, [event |-> "decrypt_permission_request",
                                      hasTxBytes |-> TruthySeq(req.txBytes)]),
                       !.decrypt = "requested"]
        ELSE FinishRound(r, r.data_shard, None, r.audit_events, r.trace, TimeStr(t2))

\* api.py:52-86: the request arrives and the handler runs to its first
\* suspension or to its end
TrainBegin(req, t, t2) ==
    /\ round.pc = "idle"
    /\ DecryptAttempted(req) => t2 = t
    /\ round' = RoundAfterBegin(req, t, t2)
    /\ UNCHANGED <<ED25519_AVAILABLE, environ, WORKER_KEYPAIR, call, prev, suspended>>

\* the decrypt step failing leaves the round to carry on as if it had not been tried
DecryptReturnIgnoringFailure(o, t2) ==
    /\ round.pc = "await_decrypt"
    /\ round.tick <= t2
    /\ round' = FinishRound([round EXCEPT !.decrypt = o.kind], round.data_shard, None,
                            round.audit_events, round.trace, TimeStr(t2))
    /\ UNCHANGED <<ED25519_AVAILABLE, environ, WORKER_KEYPAIR, call, prev, suspended>>

\* a plaintext that does not match the commit hash ends the round like a failed decrypt
DecryptReturnAbortOnMismatch(o, t2) ==
    /\ round.pc = "await_decrypt"
    /\ round.tick <= t2
    /\ LET r == [round EXCEPT !.decrypt = o.kind]
           checks == TruthySeq(r.req.commitHash)
           cv == IF checks /\ o.kind = "ok"
                 THEN Some(verify_commit(o.decryptedData, r.req.commitHash.val))
                 ELSE None
       IN  IF o.kind # "ok" \/ (TruthyDict(cv) /\ ~cv.val.match)
           THEN round' = FailRound(r, r.audit_events, o.kind)
           ELSE round' = FinishRound(r, o.decryptedData, cv,
                                     Append(r.audit_events,
                                            [event |-> "decrypt_permission_granted"]),
                                     r.trace, TimeStr(t2))
    /\ UNCHANGED <<ED25519_AVAILABLE, environ, WORKER_KEYPAIR, call, prev, suspended>>

\* the handler builds a fresh keypair for the process whenever a decrypt returns
DecryptReturnRekeying(o, t2) ==
    /\ round.pc = "await_decrypt"
    /\ round.tick <= t2
    /\ LET r == [round EXCEPT !.decrypt = o.kind]
       IN  IF o.kind # "ok"
           THEN round' = FailRound(r, r.audit_events, o.kind)
           ELSE round' = FinishRound(r, o.decryptedData, None,
                                     Append(r.audit_events,
                                            [event |-> "decrypt_permission_granted"]),
                                     r.trace, TimeStr(t2))
    /\ WORKER_KEYPAIR' = WorkerKeypairInit(NodeIdWorker1, environ, ED25519_AVAILABLE,
                                           Repeat(9, KeySize))
    /\ UNCHANGED <<ED25519_AVAILABLE, environ, call, prev, suspended>>

\* api.py:77-117: the decrypt POST ends in outcome o and the handler runs to
\* its end
DecryptReturn(o, t2) ==
    /\ round.pc = "await_decrypt"
    /\ round.tick <= t2
    /\ LET r == [round EXCEPT !.decrypt = o.kind]
       IN  IF o.kind # "ok"
           THEN round' = FailRound(r, r.audit_events, o.kind)
           ELSE LET data_shard == o.decryptedData
                    checks == TruthySeq(r.req.commitHash)
                    commit_verified ==
                        IF checks THEN Some(verify_commit(data_shard, r.req.commitHash.val))
                        ELSE None
                    audit == r.audit_events
                        \o (IF checks
                            THEN << [event |-> "commit_verification",
                                     match |-> commit_verified.val.match,
                                     commitHash |-> r.req.commitHash.val] >>
                            ELSE <<>>)
                        \o << [event |-> "decrypt_permission_granted"] >>
                    trace == IF checks THEN Append(r.trace, "verify_commit") ELSE r.trace
                IN  round' = FinishRound(r, data_shard, commit_verified, audit, trace,
                                         TimeStr(t2))
    /\ UNCHANGED <<ED25519_AVAILABLE, environ, WORKER_KEYPAIR, call, prev, suspended>>

\* the update payload a finished round returned, taken out of its transport
\* encoding when a session key was given
UpdatePayload(r) ==
    IF r.response.encrypted THEN r.response.body.encryptedUpdate.data.b64.json
    ELSE r.response.body

\* the round ran to the end and returned an update
Completed == round.pc = "done" /\ round.response.kind = "update"

\* the response is sent and the handler is free for the next request
Respond ==
    /\ round.pc = "done"
    /\ round' = [pc |-> "idle"]
    /\ UNCHANGED <<ED25519_AVAILABLE, environ, WORKER_KEYPAIR, call, prev, suspended>>

\* the process after start-up: the keypair loaded or generated, no round yet
Init ==
    /\ ED25519_AVAILABLE \in BOOLEAN
    /\ environ = [first |-> None, second |-> None]
    /\ \E g \in {Repeat(7, KeySize)} :
         WORKER_KEYPAIR = WorkerKeypairInit(NodeIdWorker1, environ, ED25519_AVAILABLE, g)
    /\ call = [fn |-> "none"]
    /\ prev = [fn |-> "none"]
    /\ suspended = [pc |-> "idle"]
    /\ round = [pc |-> "idle"]

Next ==
    \/ \E req \in TrainRequests, t \in 0..MaxTick, t2 \in 0..MaxTick :
         t <= t2 /\ TrainBegin(req, t, t2)
    \/ \E o \in DecryptOutcomes, t2 \in 0..MaxTick : DecryptReturn(o, t2)
    \/ Respond

Spec == Init /\ [][Next]_vars

\* the text a verifier hashes for epoch i from published values: the loss L,
\* the seed S and the challenge seed C
VerifierLossText(i, L, S, C) ==
    <<"epoch:">> \o IntStr(i) \o <<":loss:">> \o FloatStr(L)
        \o <<":seed:">> \o IntStr(S) \o <<":challenge:">> \o IntStr(C)

\* the same for the gradient norm, g = 1/(L + 0.01) computed from the published L
VerifierGradText(i, L, S, C) ==
    <<"epoch:">> \o IntStr(i) \o <<":grad_norm:">>
        \o <<"1.0/(">> \o FloatStr(L + FloatUnit \div 100) \o <<")">>
        \o <<":seed:">> \o IntStr(S) \o <<":challenge:">> \o IntStr(C)

\* C5: in the update payload of every completed round, the loss hash of each
\* epoch i is the hash of "epoch:i:loss:L:seed:S:challenge:C" with L the
\* published lossHistory[i], S the request's seed and C the published
\* randomChallengeSeed.
C5_LossHashesRecomputable ==
    Completed =>
        LET p == UpdatePayload(round)
        IN  \A k \in 1..Len(p.epochLossHashes) :
                /\ k <= Len(p.lossHistory)
                /\ p.epochLossHashes[k] =
                      sha256_hash(VerifierLossText(k - 1, p.lossHistory[k],
                                                   round.req.randomSeed,
                                                   p.randomChallengeSeed))

\* C5 witness: a round of several epochs returned its payload in the
\* transport encoding.
C5_Witness ==
    /\ Completed
    /\ round.response.encrypted
    /\ Len(UpdatePayload(round).epochLossHashes) >= 3

\* C6: in the update payload of every completed round, the gradient-norm hash
\* of each epoch i is the hash of "epoch:i:grad_norm:g:seed:S:challenge:C" with
\* g = 1/(lossHistory[i] + 0.01) computed from the published loss value.
C6_GradHashesRecomputable ==
    Completed =>
        LET p == UpdatePayload(round)
        IN  \A k \in 1..Len(p.epochGradientNormHashes) :
                /\ k <= Len(p.lossHistory)
                /\ p.epochGradientNormHashes[k] =
                      sha256_hash(VerifierGradText(k - 1, p.lossHistory[k],
                                                   round.req.randomSeed,
                                                   p.randomChallengeSeed))

\* the epoch named at the head of a replay-proof hash h is i, for metric m
NamesEpoch(h, i, m) ==
    LET head == <<"sha256(", "epoch:">> \o IntStr(i) \o <<m>>
    IN  Len(h) >= Len(head) /\ SubSeq(h, 1, Len(head)) = head

\* C7: after train_on_csv with any requested epochs, the three sequences have
\* the length of the number of epochs run (the request clamped to 1..10), and
\* the entry at position i of each hash sequence is the one of epoch i.
C7_OneEntryPerEpoch ==
    Completed =>
        LET p == UpdatePayload(round)
            e == round.req.epochCount
            n == IF e < 1 THEN 1 ELSE IF e > 10 THEN 10 ELSE e
        IN  /\ Len(p.lossHistory) = n
            /\ Len(p.epochLossHashes) = n
            /\ Len(p.epochGradientNormHashes) = n
            /\ \A k \in 1..n :
                 /\ NamesEpoch(p.epochLossHashes[k], k - 1, ":loss:")
                 /\ NamesEpoch(p.epochGradientNormHashes[k], k - 1, ":grad_norm:")

\* C7 witness: a round asked for more than 10 epochs and ran 10.
C7_Witness ==
    /\ Completed
    /\ round.req.epochCount > 10
    /\ Len(UpdatePayload(round).lossHistory) = 10

\* a round asked for no epochs, or fewer, and ran one
C7_WitnessFloor ==
    /\ Completed
    /\ round.req.epochCount <= 0
    /\ Len(UpdatePayload(round).lossHistory) = 1

\* function f was called in the round
Invoked(f) == \E i \in 1..Len(round.trace) : round.trace[i] = f

\* event e is in the audit trace of the round
Audited(e) == \E i \in 1..Len(round.audit_events) : round.audit_events[i].event = e

DecryptFailures == {"timeout", "http_error", "no_decryptedData"}

\* C9: a round whose decrypt step failed ends with the error outcome, without
\* train_on_csv or create_attestation having been called; its audit trace ends
\* with decrypt_failed and holds neither decrypt_permission_granted nor
\* training_complete.
C9_DecryptFailureEndsRound ==
    (round.pc = "done" /\ round.decrypt \in DecryptFailures) =>
        /\ round.response.kind = "error"
        /\ ~Invoked("train_on_csv")
        /\ ~Invoked("create_attestation")
        /\ round.audit_events[Len(round.audit_events)].event = "decrypt_failed"
        /\ ~Audited("decrypt_permission_granted")
        /\ ~Audited("training_complete")

\* C9 witness: the decrypt POST timed out and the round ended in the error outcome.
C9_Witness ==
    /\ round.pc = "done"
    /\ round.decrypt = "timeout"
    /\ round.response.kind = "error"
    /\ Audited("decrypt_permission_request")

-----------------------------------------------------------------------------
(* Successive rounds.  The last update the worker returned is kept in prev, *)
(* so that a round can be set against the one before it.                    *)

MaxReplayEpochs == 2

\* the requests of the rounds set against each other
ReplayRequests ==
    { req \in TrainRequests :
        /\ req.epochCount \in 1..MaxReplayEpochs
        /\ req.commitHash = None
        /\ req.encryptedData # Some(<<>>) }

\* what a round published: its seed and epoch count, and its replay proof
Published(r) ==
    LET p == UpdatePayload(r)
    IN  [fn |-> "train", randomSeed |-> r.req.randomSeed, epochCount |-> r.req.epochCount,
         randomChallengeSeed |-> p.randomChallengeSeed,
         epochLossHashes |-> p.epochLossHashes,
         epochGradientNormHashes |-> p.epochGradientNormHashes]

\* the response is sent; an update is remembered as the last one returned
RespondPublish ==
    /\ round.pc = "done"
    /\ round' = [pc |-> "idle"]
    /\ prev' = IF Completed THEN Published(round) ELSE prev
    /\ UNCHANGED <<ED25519_AVAILABLE, environ, WORKER_KEYPAIR, call, suspended>>

NextReplay ==
    \/ \E req \in ReplayRequests, t \in 0..MaxTick, t2 \in 0..MaxTick :
         t <= t2 /\ TrainBegin(req, t, t2)
    \/ \E o \in DecryptOutcomes, t2 \in 0..MaxTick : DecryptReturn(o, t2)
    \/ RespondPublish

SpecReplay == Init /\ [][NextReplay]_vars

\* the updates the worker can return to a request with the seed and epoch
\* count of the last update, were it served now
RepeatUpdates ==
    { UpdatePayload(RoundAfterBegin(req, tt[1], tt[2])) :
        req \in { q \in ReplayRequests : /\ q.randomSeed = prev.randomSeed
                                         /\ q.epochCount = prev.epochCount
                                         /\ ~DecryptAttempted(q) },
        tt \in { x \in (0..MaxTick) \X (0..MaxTick) : x[1] <= x[2] } }

\* C8: the challenge seed of a round is not determined by the request's
\* randomSeed: after a round has returned its update, a round with the same
\* randomSeed and epoch count can carry another challenge seed.
C8_ChallengeNotForcedBySeed ==
    (round.pc = "idle" /\ prev.fn = "train") =>
        \E p \in RepeatUpdates : p.randomChallengeSeed # prev.randomChallengeSeed

\* the other half of C8, which the code keeps: one challenge seed per round,
\* named in every epoch hash of the round's update
ChallengeNamedInEveryHash ==
    Completed =>
        LET p == UpdatePayload(round)
            tail == <<":challenge:">> \o IntStr(p.randomChallengeSeed) \o <<")">>
            EndsWith(h) == Len(h) >= Len(tail)
                           /\ SubSeq(h, Len(h) - Len(tail) + 1, Len(h)) = tail
        IN  \A k \in 1..Len(p.epochLossHashes) :
                EndsWith(p.epochLossHashes[k]) /\ EndsWith(p.epochGradientNormHashes[k])

\* what the code does instead: a round with the seed and epoch count of the
\* last update carries its challenge seed again
SameSeedSameChallenge ==
    (Completed /\ prev.fn = "train" /\ round.req.randomSeed = prev.randomSeed
       /\ round.req.epochCount = prev.epochCount)
    => /\ UpdatePayload(round).randomChallengeSeed = prev.randomChallengeSeed
       /\ UpdatePayload(round).epochLossHashes = prev.epochLossHashes
       /\ UpdatePayload(round).epochGradientNormHashes = prev.epochGradientNormHashes

\* two rounds with the same seed and epoch count, the second on another shard
RepeatedRound ==
    /\ Completed /\ prev.fn = "train"
    /\ round.req.randomSeed = prev.randomSeed
    /\ round.req.epochCount = prev.epochCount

\* text msg has the line ln: between line breaks, or at an end of the text
HasLine(msg, ln) ==
    \E i \in 1..Len(msg) :
        /\ i + Len(ln) - 1 <= Len(msg)
        /\ SubSeq(msg, i, i + Len(ln) - 1) = ln
        /\ (i = 1 \/ msg[i - 1] = "\n")
        /\ (i + Len(ln) - 1 = Len(msg) \/ msg[i + Len(ln)] = "\n")

\* the decrypt step of the round succeeded and the plaintext it returned does
\* not hash to the request's commitHash
DecryptedMismatch ==
    /\ round.pc = "done"
    /\ round.decrypt = "ok"
    /\ TruthySeq(round.req.commitHash)
    /\ sha256_hash(round.data_shard) # round.req.commitHash.val

\* C12: a round whose decryption succeeded with a plaintext that does not hash
\* to the request's commitHash is not aborted: a commit_verification audit
\* event with match false precedes training_complete, training ran, and the
\* attestation has commitVerified.match = commitVerified.verified = false and
\* a signed message with the lines commitVerified:False and commitHash:<hash>.
C12_MismatchIsReportedNotFatal ==
    DecryptedMismatch =>
        /\ Completed
        /\ Invoked("train_on_csv")
        /\ LET p == UpdatePayload(round)
               au == p.auditTrace
               att == p.attestation
           IN  /\ \E i \in 1..Len(au), j \in 1..Len(au) :
                    /\ i < j
                    /\ au[i].event = "commit_verification"
                    /\ au[i].match = FALSE
                    /\ au[j].event = "training_complete"
               /\ ~att.commitVerified.isNone
               /\ att.commitVerified.val.match = FALSE
               /\ att.commitVerified.val.verified = FALSE
               /\ HasLine(att.message, <<"commitVerified:">> \o BoolStr(FALSE))
               /\ HasLine(att.message, <<"commitHash:">> \o round.req.commitHash.val)
               /\ Verifies(att.message, att.signature)

\* C12 witness: such a round returned its update, signed over the line
\* commitVerified:False.
C12_Witness ==
    /\ DecryptedMismatch
    /\ Completed
    /\ HasLine(UpdatePayload(round).attestation.message,
               <<"commitVerified:">> \o BoolStr(FALSE))

-----------------------------------------------------------------------------
(* Concurrent rounds.  The handler is a coroutine on one event loop: while  *)
(* a round waits at the await of the decrypt POST, the loop serves another  *)
(* request.  round is the coroutine the loop runs, suspended the other one. *)

\* the requests of the concurrent rounds
ConcurrentRequests ==
    { req \in TrainRequests :
        /\ req.epochCount = 1
        /\ req.dataShard \in Plaintexts
        /\ req.commitHash = None
        /\ req.encryptedData # Some(<<>>) }

\* api.py:79: at the await the event loop turns to the other coroutine, which
\* is idle (the next request can arrive) or waits for its own decrypt POST
Switch ==
    /\ round.pc # "done"
    /\ round # suspended
    /\ round' = suspended
    /\ suspended' = round
    /\ UNCHANGED <<ED25519_AVAILABLE, environ, WORKER_KEYPAIR, call, prev>>

NextConcurrent ==
    \/ \E req \in ConcurrentRequests, t \in 0..MaxTick, t2 \in 0..MaxTick :
         t <= t2 /\ TrainBegin(req, t, t2)
    \/ \E o \in DecryptOutcomes, t2 \in 0..MaxTick : DecryptReturn(o, t2)
    \/ Respond
    \/ Switch

SpecConcurrent == Init /\ [][NextConcurrent]_vars

\* the attestation of the finished round names the process keypair and is
\* signed over the message of this round's own values
AttestationOfOwnRound ==
    Completed =>
        LET p == UpdatePayload(round)
            att == p.attestation
            own == [node_id |-> round.req.nodeId, started_at |-> round.started,
                    finished_at |-> p.finishedAt,
                    global_model_hash |-> round.req.globalModelHash,
                    num_samples |-> p.numSamples, epoch_count |-> round.req.epochCount,
                    random_seed |-> round.req.randomSeed]
        IN  /\ att.publicKey = get_public_key_base64(WORKER_KEYPAIR)
            /\ att.signerPubKey = get_public_key_base64(WORKER_KEYPAIR)
            /\ att.suiAddress = get_sui_address(WORKER_KEYPAIR)
            /\ p.suiAddress = get_sui_address(WORKER_KEYPAIR)
            /\ att.weightsHash = p.weightsHash
            /\ att.lossHistoryHash = LossHistoryHash(p.lossHistory)
            /\ att.message = RebuiltMessage(own, att)
            /\ Verifies(att.message, att.signature)

\* C13: the process-wide keypair is immutable after initialisation: under any
\* interleaving of concurrent /train rounds no step changes it, every
\* attestation carries the publicKey, signerPubKey and address of that keypair,
\* and its signature is over the message of its own round.
C13_KeypairImmutable ==
    /\ [][WORKER_KEYPAIR' = WORKER_KEYPAIR]_vars
    /\ []AttestationOfOwnRound

\* C13 witness: a round finished with its attestation while another round,
\* with another seed, was waiting for its decrypt POST.
C13_Witness ==
    /\ Completed
    /\ suspended.pc = "await_decrypt"
    /\ suspended.req.randomSeed # round.req.randomSeed
    /\ round.decrypt = "ok"
    /\ suspended.tick <= round.tick

\* C14: in every round that completes with an attestation and whose request
\* carries a commitHash, the shard trained on was checked against it: the
\* attestation's commitVerified is non-null and the signed message has the
\* commitHash line, whichever of dataShard, encryptedData and sessionKey the
\* request supplies.
C14_CommitAlwaysChecked ==
    (Completed /\ TruthySeq(round.req.commitHash)) =>
        LET att == UpdatePayload(round).attestation
        IN  /\ ~att.commitVerified.isNone
            /\ Invoked("verify_commit")
            /\ HasLine(att.message, <<"commitHash:">> \o round.req.commitHash.val)

\* what the code keeps of C14: the check is made in the rounds that decrypt
CommitCheckedWhenDecrypted ==
    (Completed /\ TruthySeq(round.req.commitHash) /\ round.decrypt = "ok") =>
        LET att == UpdatePayload(round).attestation
        IN  /\ ~att.commitVerified.isNone
            /\ Invoked("verify_commit")
            /\ HasLine(att.message, <<"commitHash:">> \o round.req.commitHash.val)

\* a round trained on the plain dataShard of a request that carries a commitHash
PlainShardWithCommitHash ==
    /\ Completed
    /\ TruthySeq(round.req.commitHash)
    /\ round.decrypt = "none"
    /\ UpdatePayload(round).attestation.commitVerified.isNone

\* C15: in every update payload returned by /train, the epochCount written
\* into the signed message equals the number of entries of epochLossHashes, of
\* epochGradientNormHashes and of lossHistory of that payload.
C15_SignedEpochCountIsEpochsRun ==
    Completed =>
        LET p == UpdatePayload(round)
            n == Len(p.lossHistory)
        IN  /\ Len(p.epochLossHashes) = n
            /\ Len(p.epochGradientNormHashes) = n
            /\ HasLine(p.attestation.message, <<"epochCount:">> \o IntStr(n))

\* what the code keeps of C15: the signed epochCount is the requested one, and
\* it is the number of entries when the request asks for 1 to 10 epochs
SignedEpochCountIsRequested ==
    Completed =>
        LET p == UpdatePayload(round)
        IN  /\ HasLine(p.attestation.message,
                       <<"epochCount:">> \o IntStr(round.req.epochCount))
            /\ round.req.epochCount \in MinEpochs..MaxEpochs
                  => Len(p.lossHistory) = round.req.epochCount

\* a round asked for more than 10 epochs signed that count over 10 entries
SignedCountAboveEntries ==
    /\ Completed
    /\ round.req.epochCount > MaxEpochs
    /\ Len(UpdatePayload(round).epochLossHashes) = MaxEpochs
    /\ HasLine(UpdatePayload(round).attestation.message,
               <<"epochCount:">> \o IntStr(round.req.epochCount))

-----------------------------------------------------------------------------
(* Process start: the module-level WORKER_KEYPAIR = WorkerKeypair("worker-1") *)

SecretChars == {"a", "0", "z", "-", "="}

\* key strings as an operator would configure them, beside the short ones
LongSecrets ==
    { Repeat("A", 43) \o <<"=">>,      \* base64 of 32 bytes
      Repeat("a", 43) \o <<"=">>,
      Repeat("a", 64),                 \* hex of 32 bytes, also valid base64
      Repeat("z", 41) }                \* neither: raw text longer than 32

Secrets == SeqsUpTo(SecretChars, MaxSecretLen) \cup LongSecrets


InitKey ==
    /\ ED25519_AVAILABLE \in BOOLEAN
    /\ environ \in [first : {None} \cup {Some(s) : s \in Secrets},
                    second : {None, Some(Repeat("a", 43) \o <<"=">>)}]
    /\ WORKER_KEYPAIR = NoKeypair
    /\ call = [fn |-> "none"]
    /\ prev = [fn |-> "none"]
    /\ suspended = [pc |-> "idle"]
    /\ round = [pc |-> "idle"]

\* api.py:23
Startup ==
    /\ WORKER_KEYPAIR.status = "unset"
    /\ \E g \in GeneratedKeys :
         WORKER_KEYPAIR' = WorkerKeypairInit(NodeIdWorker1, environ, ED25519_AVAILABLE, g)
    /\ UNCHANGED <<ED25519_AVAILABLE, environ, call, prev, round, suspended>>

NextKey == Startup

SpecKey == InitKey /\ [][NextKey]_vars

\* the secret string WorkerKeypair reads: the first variable, or else the second
ConfiguredSecret == PyOr(environ.first, environ.second)

\* C10: once WorkerKeypair.__init__ has run, the key material is the result of
\* the first decoder, in the order base64, hex, raw bytes, that accepts the
\* configured secret, and it is a generated key exactly when no (non-empty)
\* secret is configured.
C10_DecoderOrder ==
    WORKER_KEYPAIR.status # "unset" =>
        LET sk == WORKER_KEYPAIR.private_key_bytes.val
            src == WORKER_KEYPAIR.source
        IN  IF TruthySeq(ConfiguredSecret)
            THEN LET s == ConfiguredSecret.val
                     b == b64decode(s)
                     h == fromhex(s)
                 IN  /\ src # "generated"
                     /\ b.ok => (src = "base64" /\ sk = b.bytes)
                     /\ ((~b.ok) /\ h.ok) => (src = "hex" /\ sk = h.bytes)
                     /\ ((~b.ok) /\ ~h.ok) =>
                            (src = "raw" /\ sk = Take(encode_utf8(s), KeySize))
            ELSE src = "generated" /\ sk \in GeneratedKeys

\* C10 witness: a secret that is valid base64 and valid hex, decoding to
\* different bytes, was resolved to the base64 bytes.
C10_Witness ==
    /\ WORKER_KEYPAIR.status # "unset"
    /\ TruthySeq(ConfiguredSecret)
    /\ b64decode(ConfiguredSecret.val).ok
    /\ fromhex(ConfiguredSecret.val).ok
    /\ b64decode(ConfiguredSecret.val).bytes # fromhex(ConfiguredSecret.val).bytes
    /\ WORKER_KEYPAIR.private_key_bytes.val = b64decode(ConfiguredSecret.val).bytes

\* C11: for every secret source value, WorkerKeypair initialisation ends with
\* a keypair (never in an exception) whose private key material is exactly 32
\* bytes and whose public key is present; a raw secret is cut or padded to 32.
C11_KeypairOf32Bytes ==
    WORKER_KEYPAIR.status # "unset" =>
        /\ WORKER_KEYPAIR.status = "ready"
        /\ Len(WORKER_KEYPAIR.private_key_bytes.val) = KeySize
        /\ ~WORKER_KEYPAIR.public_key_bytes.isNone

\* the raw fallback cuts a longer secret to 32 bytes, which the code does
RawSecretCut ==
    (WORKER_KEYPAIR.status # "unset" /\ WORKER_KEYPAIR.source = "raw"
       /\ Len(ConfiguredSecret.val) > KeySize)
    => /\ WORKER_KEYPAIR.status = "ready"
       /\ Len(WORKER_KEYPAIR.private_key_bytes.val) = KeySize

\* a secret longer than 32 characters went through the raw fallback
RawSecretCutReached ==
    /\ WORKER_KEYPAIR.status = "ready"
    /\ WORKER_KEYPAIR.source = "raw"
    /\ Len(ConfiguredSecret.val) > KeySize

====
